---- MODULE Spec2Model ----
(***************************************************************************)
(* A model of static-builder (src/src/lib.rs): the scan of a source tree,  *)
(* the alias set of each resource, the rendering of its content, the       *)
(* media-type table, the synthesis of the routing artifact, and the        *)
(* service that the artifact defines.                                      *)
(*                                                                         *)
(* Strings that the code takes apart (file names, paths) are sequences of  *)
(* one-character strings, so that extension(), set_extension(), parent()   *)
(* and join() are computed the way std::path computes them.                *)
(***************************************************************************)
EXTENDS Integers, Sequences, FiniteSets, TLC

VARIABLES
    pathIn,     \* Resource.path of the resource handed to Resource::paths
    pathOut,    \* the Vec<PathBuf> it returned, or the marker NotCalled
    djIn,       \* the markup source handed to render_djot
    djOut,      \* the Result it returned, or the marker NotCalled
    profile,    \* the PROFILE environment variable of the build
    tree,       \* the source tree: node -> [name, kind, readable]
    text,       \* file node -> the file's text, or Deleted
    edits,      \* number of edits made to the source tree so far
    built,      \* "no", "ok" or "panicked": how write_static_content_module ended
    outFile,    \* what has been written to fd: <<>> or <<artifact>>
    stdout,     \* the entries named by cargo::rerun-if-changed lines, in order
    resources,  \* <<the Vec<Resource> scan_resources returned>>, <<>> before that
    textAtBuild,\* history: text as it was when the build ran
    last        \* the last request made to the generated service and its outcome

pathVars == <<pathIn, pathOut>>
djVars == <<djIn, djOut>>
siteVars == <<profile, tree, text, edits, built, outFile, stdout, resources,
             textAtBuild, last>>
vars == <<pathIn, pathOut, djIn, djOut, profile, tree, text, edits, built, outFile,
          stdout, resources, textAtBuild, last>>

NotCalled == <<"not-called">>
NotRendered == [called |-> FALSE]
None == <<"none">>

\* ---------------------------------------------------------------- strings
S_slash == <<"/">>
S_dot == <<".">>
S_dj == <<"d", "j">>
S_html == <<"h", "t", "m", "l">>
S_css == <<"c", "s", "s">>
S_index_html == <<"i", "n", "d", "e", "x", ".", "h", "t", "m", "l">>
S_index_dj == <<"i", "n", "d", "e", "x", ".", "d", "j">>
S_index == <<"i", "n", "d", "e", "x">>
S_a_dj == <<"a", ".", "d", "j">>
S_a_html == <<"a", ".", "h", "t", "m", "l">>
S_a_css == <<"a", ".", "c", "s", "s">>
S_a_xyz == <<"a", ".", "x", "y", "z">>
S_a_b_dj == <<"a", ".", "b", ".", "d", "j">>
S_index_html_dj == <<"i", "n", "d", "e", "x", ".", "h", "t", "m", "l", ".", "d", "j">>
S_dir == <<"d", "i", "r">>
S_site == <<"s", "i", "t", "e">>
S_dot_site == <<".", "s", "i", "t", "e">>
S_dot_dj == <<".", "d", "j">>
S_git == <<".", "g", "i", "t">>
S_hid == <<".", "h", "i", "d">>
S_readme == <<"R", "E", "A", "D", "M", "E">>
S_link == <<"l", "i", "n", "k">>
S_root_index_html == S_slash \o S_index_html

StartsWith(s, prefix) ==
    /\ Len(s) >= Len(prefix)
    /\ SubSeq(s, 1, Len(prefix)) = prefix

\* index of the last occurrence of ch in s, 0 when there is none
RECURSIVE LastIndexUpTo(_, _, _)
LastIndexUpTo(s, ch, i) ==
    IF i = 0 THEN 0 ELSE IF s[i] = ch THEN i ELSE LastIndexUpTo(s, ch, i - 1)
LastIndexOf(s, ch) == LastIndexUpTo(s, ch, Len(s))

\* index of the last element of s[1..i] that is not ch, 0 when there is none
RECURSIVE LastOtherUpTo(_, _, _)
LastOtherUpTo(s, ch, i) ==
    IF i = 0 THEN 0 ELSE IF s[i] # ch THEN i ELSE LastOtherUpTo(s, ch, i - 1)

\* ------------------------------------------------------------- std::path
\* Path::components() of an absolute path without "." or ".." components:
\* the names between separators, empty ones (repeated or trailing
\* separators) dropped.
RECURSIVE Components(_)
Components(p) ==
    IF p = <<>> THEN <<>>
    ELSE LET k == LastIndexOf(p, "/")
             name == SubSeq(p, k + 1, Len(p))
             rest == IF k = 0 THEN <<>> ELSE SubSeq(p, 1, k - 1)
         IN  IF name = <<>> THEN Components(rest)
             ELSE Append(Components(rest), name)

\* offset in p at which the last component ends (0 when there is none)
EndOfLastComponent(p) == LastOtherUpTo(p, "/", Len(p))

\* Path::file_name()
file_name(p) ==
    LET c == Components(p)
    IN  IF c = <<>> THEN None ELSE c[Len(c)]

\* Path::extension(): the part of the file name after its last dot; none
\* when there is no dot or the only dot is the first character
extension(p) ==
    LET f == file_name(p)
        k == IF f = None THEN 0 ELSE LastIndexOf(f, ".")
    IN  IF f = None \/ k <= 1 THEN None ELSE SubSeq(f, k + 1, Len(f))

\* Path::file_stem()
file_stem(p) ==
    LET f == file_name(p)
        k == IF f = None THEN 0 ELSE LastIndexOf(f, ".")
    IN  IF f = None THEN None
        ELSE IF k <= 1 THEN f ELSE SubSeq(f, 1, k - 1)

\* PathBuf::set_extension(): truncate to the end of the file stem, then
\* append "." and the new extension
set_extension(p, ext) ==
    LET f == file_name(p)
        stem == file_stem(p)
        endStem == EndOfLastComponent(p) - (Len(f) - Len(stem))
    IN  IF f = None THEN p
        ELSE SubSeq(p, 1, endStem) \o (IF ext = <<>> THEN <<>> ELSE S_dot \o ext)

\* Path::parent(): the path without its last component
parent(p) ==
    LET f == file_name(p)
        cut == EndOfLastComponent(p) - Len(f)
        e == LastOtherUpTo(p, "/", cut)
    IN  IF f = None THEN None
        ELSE IF e = 0 THEN (IF cut >= 1 THEN S_slash ELSE <<>>)
        ELSE SubSeq(p, 1, e)

\* Path::join() with a relative argument: a separator is added unless the
\* path already ends with one
join(p, rel) ==
    IF p # <<>> /\ p[Len(p)] # "/" THEN p \o S_slash \o rel ELSE p \o rel

\* PathBuf == PathBuf compares components, not bytes
PathEq(p, q) ==
    /\ Components(p) = Components(q)
    /\ (p # <<>> /\ p[1] = "/") <=> (q # <<>> /\ q[1] = "/")

\* Resource::paths without the arm for the root index
paths_noRootArm(path0) ==
    LET path == IF extension(path0) = S_dj THEN set_extension(path0, S_html)
                ELSE path0
    IN  IF file_name(path) = S_index_html
        THEN <<path, parent(path), join(parent(path), <<>>)>>
        ELSE <<path>>

\* ------------------------------------------------------- Resource::paths
paths(path0) ==
    LET path == IF extension(path0) = S_dj THEN set_extension(path0, S_html)
                ELSE path0
    IN  IF file_name(path) = S_index_html
        THEN IF PathEq(path, S_root_index_html)
             THEN <<path, S_slash>>
             ELSE <<path, parent(path), join(parent(path), <<>>)>>
        ELSE <<path>>

\* --------------------------------------------------------------- results
Ok(v) == [ok |-> TRUE, v |-> v]
Err(msg) == [ok |-> FALSE, v |-> <<msg>>]

\* ----------------------------------------------------------- file texts
\* A file's text, by the facts about it that the renderer acts on:
\*   yaml    "ok" or "bad": whether its front-matter block parses
\*   layout  <<>> or <<name>>: the front matter's layout key
\*   title   <<>> or <<text>>: the front matter's title key
\*   body    the text after the front-matter block
\*   tplOk   whether the body is valid template-engine syntax
Deleted == [deleted |-> TRUE]
Layouts == {"base.html"}      \* the templates that layouts/**/*.html holds

Texts == [yaml : {"ok", "bad"}, layout : {<<>>, <<"base">>, <<"nope">>},
          title : {<<>>, <<"T">>, <<"">>}, body : {"b1", "b2"}, tplOk : BOOLEAN]

\* fs::read_to_string(source): the characters of the file
read_to_string(t) ==
    (IF t.yaml = "bad" THEN "---\n: [\n"
     ELSE "---\n"
          \o (IF t.layout = <<>> THEN "" ELSE "layout: " \o t.layout[1] \o "\n")
          \o (IF t.title = <<>> THEN "" ELSE "title: " \o t.title[1] \o "\n"))
    \o "---\n" \o t.body \o (IF t.tplOk THEN "" ELSE "{% if %}")

\* YamlFrontMatter::parse::<DjotMetadata>
YamlFrontMatter_parse(t) ==
    IF t.yaml = "bad" THEN Err("frontmatter parsing failed")
    ELSE Ok([metadata |-> [title |-> t.title, layout |-> t.layout],
             content |-> [s |-> t.body \o (IF t.tplOk THEN "" ELSE "{% if %}"),
                          syntaxOk |-> t.tplOk]])

\* jotdown::html::Renderer::push into a String: the converter is a black
\* box; template syntax in the body survives the conversion
jotdown(content) == "<p>" \o content.s \o "</p>\n"

\* render_djot that pushes the title into the headtitle block only
render_djot_headtitleOnly(input) ==
    LET doc == YamlFrontMatter_parse(input)
        layout == doc.v.metadata.layout
        title == doc.v.metadata.title
        r1 == IF layout # <<>>
              THEN <<"{% extends \"" \o layout[1] \o ".html\" %}", "\n">>
              ELSE <<>>
        r2 == IF title # <<>>
              THEN r1 \o <<"{% block headtitle %}" \o title[1] \o "{% endblock headtitle %}",
                           "\n">>
              ELSE r1
        r3 == r2 \o <<"{% block content %}\n", jotdown(doc.v.content),
                      "{% endblock content %}\n">>
    IN  IF ~doc.ok THEN doc
        ELSE Ok([pieces |-> r3, syntaxOk |-> doc.v.content.syntaxOk,
                 extends |-> IF layout # <<>> THEN <<layout[1] \o ".html">> ELSE <<>>])

\* A template source is the sequence of the pieces pushed onto the String,
\* with the two facts about it that the template engine acts on.
render_djot(input) ==
    LET doc == YamlFrontMatter_parse(input)
        layout == doc.v.metadata.layout
        title == doc.v.metadata.title
        r1 == IF layout # <<>>
              THEN <<"{% extends \"" \o layout[1] \o ".html\" %}", "\n">>
              ELSE <<>>
        r2 == IF title # <<>>
              THEN r1 \o <<"{% block headtitle %}" \o title[1] \o "{% endblock headtitle %}",
                           "{% block pagetitle %}" \o title[1] \o "{% endblock pagetitle %}",
                           "\n">>
              ELSE r1
        r3 == r2 \o <<"{% block content %}\n", jotdown(doc.v.content),
                      "{% endblock content %}\n">>
    IN  IF ~doc.ok THEN doc
        ELSE Ok([pieces |-> r3, syntaxOk |-> doc.v.content.syntaxOk,
                 extends |-> IF layout # <<>> THEN <<layout[1] \o ".html">> ELSE <<>>])

\* Tera::render_str with an empty context: fails on a syntax error and on
\* an extends of a template that layouts/ does not hold
render_str(tpl) ==
    IF ~tpl.syntaxOk THEN Err("template syntax")
    ELSE IF tpl.extends # <<>> /\ tpl.extends[1] \notin Layouts THEN Err("missing layout")
    ELSE Ok(<<"rendered">> \o tpl.pieces)

\* ----------------------------------------------------- Resource::content
\* name is the file name of Resource.source, t the file's text or Deleted;
\* a result that is not ok is a panic (every step is unwrapped)
content(name, t) ==
    IF t = Deleted THEN Err("No such file or directory")
    ELSE IF extension(name) = S_html
    THEN render_str([pieces |-> <<read_to_string(t)>>, syntaxOk |-> t.tplOk,
                     extends |-> <<>>])
    ELSE IF extension(name) = S_dj
    THEN LET d == render_djot(t) IN IF d.ok THEN render_str(d.v) ELSE d
    ELSE Ok(<<read_to_string(t)>>)

\* -------------------------------------------------- Resource::media_type
media_type(name) ==
    LET ext == extension(name)
    IN  CASE ext = S_html \/ ext = S_dj -> Ok("text/html; charset=utf-8")
          [] ext = S_css -> Ok("text/css")
          [] ext = <<"c", "e", "r">> -> Ok("application/pkix-cert")
          [] ext = <<"d", "e", "r">> -> Ok("application/octet-stream")
          [] ext = <<"g", "p", "g">> -> Ok("application/pgp-keys")
          [] ext = <<"i", "c", "o">> -> Ok("image/vnd.microsoft.icon")
          [] ext = <<"j", "s">> -> Ok("application/json")
          [] ext = <<"p", "e", "m">> -> Ok("text/plain")
          [] ext = <<"p", "k", "b", "f">> -> Ok("application/octet-stream")
          [] ext = <<"p", "n", "g">> -> Ok("image/png")
          [] ext = <<"t", "x", "t">> -> Ok("text/plain")
          [] ext = None -> Ok("application/octet-stream")
          [] OTHER -> Err("Unmimeable file extension")

\* ------------------------------------------------------- the source tree
\* The tree under base_path: node 0 is base_path itself, node 1 a directory
\* in it, nodes 2 and 3 entries in it, node 4 an entry in node 1.  Children
\* are listed in the order read_dir yields them.
Nodes == 0..4
FileNodes == {2, 3, 4}
Parent(n) == IF n = 4 THEN 1 ELSE 0
Children(n) == IF n = 0 THEN <<1, 2, 3>> ELSE IF n = 1 THEN <<4>> ELSE <<>>

Entry(name, kind, readable) == [name |-> name, kind |-> kind, readable |-> readable]

\* DirEntry::path(): base_path joined with the names down to the entry
RECURSIVE EntryPath(_, _)
EntryPath(t, n) ==
    IF n = 0 THEN t[0].name ELSE join(EntryPath(t, Parent(n)), t[n].name)

\* Path::strip_prefix(base_path) of an entry's path
strip_prefix(p, base) == SubSeq(p, Len(base) + 2, Len(p))

\* the node that a source path names
NodeAt(t, source) == CHOOSE n \in Nodes : EntryPath(t, n) = source

\* ------------------------------------------------------- scan_resources
\* valid_static_file, on DirEntry::file_name(); for the root of the walk
\* that is the last component of base_path
valid_static_file(entry) == ~StartsWith(entry.name, S_dot)

\* WalkDir::new(base_path).into_iter().filter_entry(valid_static_file):
\* the entries in depth-first order; an entry that fails the predicate is
\* skipped with everything below it, the root of the walk included; a
\* directory that cannot be read yields itself and then an error (-1)
WalkErr == -1
RECURSIVE WalkFrom(_, _), WalkAll(_, _)
WalkFrom(t, n) ==
    IF ~valid_static_file(t[n]) THEN <<>>
    ELSE IF t[n].kind # "dir" THEN <<n>>
    ELSE IF ~t[n].readable THEN <<n, WalkErr>>
    ELSE <<n>> \o WalkAll(t, Children(n))
WalkAll(t, ns) ==
    IF ns = <<>> THEN <<>> ELSE WalkFrom(t, Head(ns)) \o WalkAll(t, Tail(ns))

Resource(source, path) == [source |-> source, path |-> path]

\* scan_resources that prints the notice for every entry in both modes
scan_resources_printAll(t, prof) ==
    LET items == WalkFrom(t, 0)
        errs == {i \in 1..Len(items) : items[i] = WalkErr}
        n == IF errs = {} THEN Len(items)
             ELSE (CHOOSE i \in errs : \A j \in errs : i <= j) - 1
        visited == SubSeq(items, 1, n)
        files == SelectSeq(visited, LAMBDA e : t[e].kind = "file")
    IN  [panicked |-> errs # {},
         printed |-> visited,
         resources |-> [i \in 1..Len(files) |->
                          Resource(EntryPath(t, files[i]),
                                   join(S_slash, strip_prefix(EntryPath(t, files[i]),
                                                              t[0].name)))]]

\* the loop body runs for the items before the first error; entry.unwrap()
\* panics on the error
scan_resources(t, prof) ==
    LET items == WalkFrom(t, 0)
        errs == {i \in 1..Len(items) : items[i] = WalkErr}
        n == IF errs = {} THEN Len(items)
             ELSE (CHOOSE i \in errs : \A j \in errs : i <= j) - 1
        visited == SubSeq(items, 1, n)
        printed == SelectSeq(visited, LAMBDA e : prof = "release" \/ t[e].kind = "dir")
        files == SelectSeq(visited, LAMBDA e : t[e].kind = "file")
    IN  [panicked |-> errs # {},
         printed |-> printed,
         resources |-> [i \in 1..Len(files) |->
                          Resource(EntryPath(t, files[i]),
                                   join(S_slash, strip_prefix(EntryPath(t, files[i]),
                                                              t[0].name)))]]

\* ------------------------------------------ write_static_content_module
\* the arm of frozen mode emitted in both modes
Arm_frozenInBothModes(path, prof, source, body, mime) ==
    [path |-> path, arm |-> "frozen", body |-> body, source |-> <<>>,
     media_type |-> mime]

\* One match arm of StaticContent::response
Arm(path, prof, source, body, mime) ==
    IF prof = "release"
    THEN [path |-> path, arm |-> "frozen", body |-> body, source |-> <<>>,
          media_type |-> mime]
    ELSE [path |-> path, arm |-> "live", body |-> <<>>, source |-> source,
          media_type |-> mime]

\* the loop with r.content() called only where its result is embedded
RECURSIVE generate_renderWhenFrozen(_, _, _, _)
generate_renderWhenFrozen(rs, t, txt, prof) ==
    IF rs = <<>> THEN Ok([resource_paths |-> <<>>, resource_responses |-> <<>>])
    ELSE LET r == Head(rs)
             c == IF prof = "release" THEN content(r.source, txt[NodeAt(t, r.source)])
                  ELSE Ok(<<>>)
             m == media_type(r.source)
             ps == paths(r.path)
             rest == generate_renderWhenFrozen(Tail(rs), t, txt, prof)
         IN  IF ~c.ok THEN c
             ELSE IF ~m.ok THEN m
             ELSE IF ~rest.ok THEN rest
             ELSE Ok([resource_paths |-> ps \o rest.v.resource_paths,
                      resource_responses |->
                          [i \in 1..Len(ps) |-> Arm(ps[i], prof, r.source, c.v, m.v)]
                          \o rest.v.resource_responses])

\* the loop with the pattern pushed once per resource, not once per alias
RECURSIVE generate_onePatternPerResource(_, _, _, _)
generate_onePatternPerResource(rs, t, txt, prof) ==
    IF rs = <<>> THEN Ok([resource_paths |-> <<>>, resource_responses |-> <<>>])
    ELSE LET r == Head(rs)
             c == content(r.source, txt[NodeAt(t, r.source)])
             m == media_type(r.source)
             ps == paths(r.path)
             rest == generate_onePatternPerResource(Tail(rs), t, txt, prof)
         IN  IF ~c.ok THEN c
             ELSE IF ~m.ok THEN m
             ELSE IF ~rest.ok THEN rest
             ELSE Ok([resource_paths |-> <<ps[1]>> \o rest.v.resource_paths,
                      resource_responses |->
                          [i \in 1..Len(ps) |-> Arm(ps[i], prof, r.source, c.v, m.v)]
                          \o rest.v.resource_responses])

\* the loop over the resources: a result that is not ok is the panic of
\* r.content() or r.media_type()
RECURSIVE generate(_, _, _, _)
generate(rs, t, txt, prof) ==
    IF rs = <<>> THEN Ok([resource_paths |-> <<>>, resource_responses |-> <<>>])
    ELSE LET r == Head(rs)
             c == content(r.source, txt[NodeAt(t, r.source)])
             m == media_type(r.source)
             ps == paths(r.path)
             rest == generate(Tail(rs), t, txt, prof)
         IN  IF ~c.ok THEN c
             ELSE IF ~m.ok THEN m
             ELSE IF ~rest.ok THEN rest
             ELSE Ok([resource_paths |-> ps \o rest.v.resource_paths,
                      resource_responses |->
                          [i \in 1..Len(ps) |-> Arm(ps[i], prof, r.source, c.v, m.v)]
                          \o rest.v.resource_responses])

\* ------------------------------------------------- the generated service
NoRequest == [method |-> "", path |-> <<>>, status |-> "none", body |-> <<>>,
              media_type |-> "", dispatched |-> FALSE, rendered |-> FALSE]

\* StaticContent::response with a render failure answered by an empty body
response_emptyOnFailure(artifact, path, t, txt) ==
    LET arms == artifact.resource_responses
        I == {i \in 1..Len(arms) : arms[i].path = path}
        a == arms[CHOOSE i \in I : \A j \in I : i <= j]
        c == content(a.source, txt[NodeAt(t, a.source)])
    IN  IF I = {}
        THEN [status |-> "panic: unregistered path", body |-> <<>>, media_type |-> "",
              rendered |-> FALSE]
        ELSE IF a.arm = "frozen"
        THEN [status |-> "200", body |-> a.body, media_type |-> a.media_type,
              rendered |-> FALSE]
        ELSE [status |-> "200", body |-> IF c.ok THEN c.v ELSE <<>>,
              media_type |-> a.media_type, rendered |-> TRUE]

\* StaticContent::response: the first arm whose pattern equals the path;
\* the catch-all arm panics
response(artifact, path, t, txt) ==
    LET arms == artifact.resource_responses
        I == {i \in 1..Len(arms) : arms[i].path = path}
        a == arms[CHOOSE i \in I : \A j \in I : i <= j]
        c == content(a.source, txt[NodeAt(t, a.source)])
    IN  IF I = {}
        THEN [status |-> "panic: unregistered path", body |-> <<>>, media_type |-> "",
              rendered |-> FALSE]
        ELSE IF a.arm = "frozen"
        THEN [status |-> "200", body |-> a.body, media_type |-> a.media_type,
              rendered |-> FALSE]
        ELSE IF c.ok
        THEN [status |-> "200", body |-> c.v, media_type |-> a.media_type,
              rendered |-> TRUE]
        ELSE [status |-> "panic: content", body |-> <<>>, media_type |-> "",
              rendered |-> TRUE]

\* StaticContent::call without the method check
call_anyMethod(artifact, method, path, t, txt) ==
    LET res == response(artifact, path, t, txt)
    IN  [method |-> method, path |-> path, status |-> res.status,
         body |-> res.body, media_type |-> res.media_type,
         dispatched |-> TRUE, rendered |-> res.rendered]

\* StaticContent::call
call(artifact, method, path, t, txt) ==
    IF method \notin {"HEAD", "GET"}
    THEN [method |-> method, path |-> path, status |-> "405", body |-> <<>>,
          media_type |-> "", dispatched |-> FALSE, rendered |-> FALSE]
    ELSE LET res == response(artifact, path, t, txt)
         IN  [method |-> method, path |-> path, status |-> res.status,
              body |-> res.body, media_type |-> res.media_type,
              dispatched |-> TRUE, rendered |-> res.rendered]

\* ---------------------------------------------------------------- bounds
MaxEdits == 1      \* edits made to the source tree in one behaviour
MaxDepth == 2      \* components of a logical path handed to Resource::paths

\* ----------------------------------------------------------- input sets
Methods == {"GET", "HEAD", "POST"}
S_nope == <<"/", "n", "o", "p", "e">>

T1 == [yaml |-> "ok", layout |-> <<"base">>, title |-> <<"T">>, body |-> "b1", tplOk |-> TRUE]
T2 == [yaml |-> "ok", layout |-> <<>>, title |-> <<>>, body |-> "b2", tplOk |-> TRUE]
TBadYaml == [T1 EXCEPT !.yaml = "bad"]
TBadTpl == [T2 EXCEPT !.tplOk = FALSE]
TNoLayout == [T1 EXCEPT !.layout = <<"nope">>]
EditTexts == {T2, TBadYaml, TBadTpl, TNoLayout}

RootNames == {S_site, S_dot_site}
Slot1 == {Entry(S_dir, "dir", TRUE), Entry(S_git, "dir", TRUE), Entry(S_dir, "dir", FALSE)}
Slot2 == {Entry(S_index_dj, "file", TRUE), Entry(S_a_dj, "file", TRUE),
          Entry(S_a_xyz, "file", TRUE)}
Slot3 == {Entry(S_index_html, "file", TRUE), Entry(S_hid, "file", TRUE),
          Entry(S_link, "symlink", TRUE)}
Slot4 == {Entry(S_index_dj, "file", TRUE), Entry(S_readme, "file", TRUE)}

PathNames == {S_index_dj, S_index_html, S_index, S_a_dj, S_a_html, S_a_b_dj,
              S_index_html_dj, S_dj, S_dot_dj, S_dir, S_a_css}

RECURSIVE JoinAll(_, _)
JoinAll(p, names) ==
    IF names = <<>> THEN p ELSE JoinAll(join(p, Head(names)), Tail(names))

LogicalPaths ==
    {JoinAll(S_slash, names) : names \in UNION {[1..k -> PathNames] : k \in 1..MaxDepth}}

\* ------------------------------------------------------- initial states
PathsIdle == pathIn = <<>> /\ pathOut = NotCalled
DjotIdle == djIn = T1 /\ djOut = NotRendered
SiteIdle ==
    /\ profile = "debug"
    /\ tree = <<>>
    /\ text = <<>>
    /\ edits = 0
    /\ built = "no"
    /\ outFile = <<>>
    /\ stdout = <<>>
    /\ resources = <<>>
    /\ textAtBuild = <<>>
    /\ last = NoRequest

Init ==
    /\ PathsIdle
    /\ DjotIdle
    /\ profile \in {"release", "debug"}
    /\ \E r \in RootNames, e1 \in Slot1, e2 \in Slot2, e3 \in Slot3, e4 \in Slot4 :
           tree = [n \in Nodes |->
                     CASE n = 0 -> Entry(r, "dir", TRUE)
                       [] n = 1 -> e1
                       [] n = 2 -> e2
                       [] n = 3 -> e3
                       [] n = 4 -> e4]
    /\ text = [n \in Nodes |-> T1]
    /\ edits = 0
    /\ built = "no"
    /\ outFile = <<>>
    /\ stdout = <<>>
    /\ resources = <<>>
    /\ textAtBuild = <<>>
    /\ last = NoRequest

InitPaths == pathIn \in LogicalPaths /\ pathOut = NotCalled /\ DjotIdle /\ SiteIdle

InitDjot == djIn \in Texts /\ djOut = NotRendered /\ PathsIdle /\ SiteIdle

\* --------------------------------------------------------------- actions
\* the source file at node n is saved with new text
EditSource(n, t) ==
    /\ edits < MaxEdits
    /\ tree[n].kind = "file"
    /\ text[n] # Deleted
    /\ text[n] # t
    /\ text' = [text EXCEPT ![n] = t]
    /\ edits' = edits + 1
    /\ UNCHANGED <<pathVars, djVars, profile, tree, built, outFile, stdout,
                   resources, textAtBuild, last>>

\* the source file at node n is removed after the build
DeleteSource(n) ==
    /\ edits < MaxEdits
    /\ built = "ok"
    /\ tree[n].kind = "file"
    /\ text[n] # Deleted
    /\ text' = [text EXCEPT ![n] = Deleted]
    /\ edits' = edits + 1
    /\ UNCHANGED <<pathVars, djVars, profile, tree, built, outFile, stdout,
                   resources, textAtBuild, last>>

\* a build script calls write_static_content_module(fd, base_path)
Build ==
    /\ built = "no"
    /\ \E s \in {scan_resources(tree, profile)} :
       \E g \in {generate(s.resources, tree, text, profile)} :
           /\ stdout' = s.printed
           /\ resources' = IF s.panicked THEN <<>> ELSE <<s.resources>>
           /\ IF s.panicked \/ ~g.ok
              THEN built' = "panicked" /\ outFile' = <<>>
              ELSE built' = "ok" /\ outFile' = <<g.v>>
    /\ textAtBuild' = text
    /\ UNCHANGED <<pathVars, djVars, profile, tree, text, edits, last>>

\* the host framework hands a request to the service
Call(method, path) ==
    /\ built = "ok"
    /\ last' = call(outFile[1], method, path, tree, text)
    /\ UNCHANGED <<pathVars, djVars, profile, tree, text, edits, built, outFile,
                   stdout, resources, textAtBuild>>

RequestPaths ==
    {S_nope} \cup (IF built = "ok"
                   THEN {outFile[1].resource_paths[i] :
                             i \in 1..Len(outFile[1].resource_paths)}
                   ELSE {})

Next ==
    \/ \E n \in FileNodes, t \in EditTexts : EditSource(n, t)
    \/ \E n \in FileNodes : DeleteSource(n)
    \/ Build
    \/ \E m \in Methods, p \in RequestPaths : Call(m, p)

Spec == Init /\ [][Next]_vars

\* Resource::paths applied to one logical path
CallPaths ==
    /\ pathOut = NotCalled
    /\ pathOut' = paths(pathIn)
    /\ UNCHANGED <<pathIn, djVars, siteVars>>

NextPaths == CallPaths

SpecPaths == InitPaths /\ [][NextPaths]_vars

\* render_djot applied to one markup source
CallRenderDjot ==
    /\ djOut = NotRendered
    /\ djOut' = render_djot(djIn)
    /\ UNCHANGED <<djIn, pathVars, siteVars>>

NextDjot == CallRenderDjot

SpecDjot == InitDjot /\ [][NextDjot]_vars

\* ================================================================ claims
\* ------------------------------------------------ what the claims speak of
Range(seq) == {seq[i] : i \in 1..Len(seq)}

\* a name that begins with the hidden-file marker
Hidden(name) == name # <<>> /\ name[1] = "."

\* node n and its ancestors below base_path
RECURSIVE BelowRoot(_)
BelowRoot(n) == IF n = 0 THEN {} ELSE {n} \cup BelowRoot(Parent(n))

\* the regular files under base_path that are not hidden and have no hidden
\* directory among their ancestors below base_path
VisibleFiles(t) ==
    {n \in Nodes \ {0} : t[n].kind = "file" /\ \A a \in BelowRoot(n) : ~Hidden(t[a].name)}

\* "/" joined with the path of node n relative to base_path
RECURSIVE RelativeTo(_, _)
RelativeTo(t, n) ==
    IF Parent(n) = 0 THEN t[n].name
    ELSE RelativeTo(t, Parent(n)) \o S_slash \o t[n].name
LogicalPathOf(t, n) == S_slash \o RelativeTo(t, n)

\* the entries the walk reaches: neither they nor any directory above
\* them, base_path included, is skipped by the filter
Reached(t) ==
    {n \in Nodes : \A a \in BelowRoot(n) \cup {0} : valid_static_file(t[a])}

\* the walk meets a directory it cannot read
ScanFails(t) == \E n \in Reached(t) : t[n].kind = "dir" /\ ~t[n].readable

\* the alias set of the path-alias algorithm, on URL strings
NameOf(url) == SubSeq(url, LastIndexOf(url, "/") + 1, Len(url))
HasDjExtension(url) ==
    LET f == NameOf(url)
    IN  Len(f) > 3 /\ SubSeq(f, Len(f) - 2, Len(f)) = <<".", "d", "j">>
Rewritten(url) ==
    IF HasDjExtension(url) THEN SubSeq(url, 1, Len(url) - 2) \o S_html ELSE url
AliasSet(url) ==
    LET r == Rewritten(url)
        dir == SubSeq(r, 1, Len(r) - Len(S_root_index_html))
    IN  IF NameOf(r) # S_index_html THEN {r}
        ELSE IF r = S_root_index_html THEN {r, S_slash}
        ELSE {r, dir, dir \o S_slash}

\* the URL strings registered with the host framework
Registered == IF built = "ok" THEN Range(outFile[1].resource_paths) ELSE {}

\* the source of the first scanned resource that answers to url
SourceFor(url) ==
    LET rs == resources[1]
        I == {i \in 1..Len(rs) : url \in AliasSet(rs[i].path)}
    IN  rs[CHOOSE i \in I : \A j \in I : i <= j].source

\* the text of the file a source path names, in the file system txt
TextOf(source, txt) == txt[NodeAt(tree, source)]

\* ------------------------------------------------------------------- C1
\* C1: a build over a tree in which two distinct source files have alias
\* sets that share a URL string fails; no artifact is emitted for it.
C1_CollisionFailsBuild ==
    built = "ok" =>
        \A i, j \in 1..Len(resources[1]) :
            i # j => AliasSet(resources[1][i].path) \cap AliasSet(resources[1][j].path) = {}

\* ------------------------------------------------------------------- C2
\* C2: Resource::paths returns exactly the alias set of the algorithm, each
\* alias once, the rewritten path first: {/index.html, /} for the root
\* index, {path, parent, parent/} for any other index, {path} otherwise.
C2_PathsIsAliasSet ==
    pathOut # NotCalled =>
        /\ Range(pathOut) = AliasSet(pathIn)
        /\ Len(pathOut) = Cardinality(AliasSet(pathIn))
        /\ pathOut[1] = Rewritten(pathIn)
        /\ NameOf(Rewritten(pathIn)) = S_index_html =>
               Len(pathOut) = IF Rewritten(pathIn) = S_root_index_html THEN 2 ELSE 3

C2_Witness ==
    /\ pathIn = S_slash \o S_dir \o S_slash \o S_index_dj
    /\ pathOut = <<S_slash \o S_dir \o S_slash \o S_index_html, S_slash \o S_dir,
                   S_slash \o S_dir \o S_slash>>

\* ------------------------------------------------------------------- C3
\* C3: a request whose method is neither GET nor HEAD gets "method not
\* allowed", and neither the dispatcher nor the renderer has run for it,
\* whatever its path.
C3_MethodRejectedBeforeDispatch ==
    (last.status # "none" /\ last.method \notin {"GET", "HEAD"}) =>
        /\ last.status = "405"
        /\ ~last.dispatched
        /\ ~last.rendered

C3_Witness ==
    /\ last.method = "POST"
    /\ last.path \in Registered
    /\ last.status = "405"
    /\ profile = "debug"

\* ------------------------------------------------------------------- C4
\* C4: a request that is answered with a body gets, in frozen mode, the
\* content rendered at compile time, and in live mode the render of the
\* source file's text at the time of the request.
C4_FrozenOrLiveBody ==
    [][(last' # last /\ last'.status = "200") =>
          \A source \in {SourceFor(last'.path)} :
              \A t \in {TextOf(source, IF profile = "release" THEN textAtBuild ELSE text')} :
                  last'.body = content(source, t).v]_vars

\* live mode: an edit made after the build is served
C4_Witness ==
    /\ profile = "debug"
    /\ last.status = "200"
    /\ TextOf(SourceFor(last.path), text) # TextOf(SourceFor(last.path), textAtBuild)
    /\ last.body = content(SourceFor(last.path), TextOf(SourceFor(last.path), text)).v
    /\ last.body # content(SourceFor(last.path), TextOf(SourceFor(last.path), textAtBuild)).v

\* ------------------------------------------------------------------- C5
\* C5 as stated: every GET or HEAD request to a registered path returns a
\* 200 response, in both modes, whatever happened to the source since.
C5_AlwaysOk ==
    (last.method \in {"GET", "HEAD"} /\ last.path \in Registered) => last.status = "200"

\* C5 as amended: a GET or HEAD request to a registered path returns 200 in
\* frozen mode; in live mode it returns 200 exactly when the source file
\* still exists and still renders at the time of the request, and the
\* handler panics otherwise.
C5_OkUnlessLiveRenderFails ==
    [][(last' # last /\ last'.method \in {"GET", "HEAD"} /\ last'.path \in Registered) =>
          \A source \in {SourceFor(last'.path)} :
              \A t \in {TextOf(source, text')} :
                  IF profile = "release" \/ content(source, t).ok
                  THEN last'.status = "200"
                  ELSE last'.status = "panic: content"]_vars

C5_Witness ==
    /\ profile = "debug"
    /\ last.method = "GET"
    /\ last.path \in Registered
    /\ last.status = "panic: content"
    /\ TextOf(SourceFor(last.path), text) = Deleted

\* ------------------------------------------------------------------- C6
\* C6: scan_resources returns exactly one Resource for each visible regular
\* file under base_path and none for any other entry, each with the logical
\* path "/" joined with the file's path relative to base_path.
C6_ScanIsVisibleFiles ==
    (resources # <<>> /\ \A d \in Nodes : tree[d].readable) =>
        /\ Range(resources[1]) =
               {Resource(EntryPath(tree, n), LogicalPathOf(tree, n)) : n \in VisibleFiles(tree)}
        /\ Len(resources[1]) = Cardinality(VisibleFiles(tree))

\* ------------------------------------------------------------------- C7
\* C7: when the scan or any resource's render or classification fails, the
\* build aborts and nothing has been written to the output file, in both
\* modes; an artifact is written only when none of them fails.
StepFails ==
    \/ ScanFails(tree)
    \/ \E n \in Reached(tree) :
           /\ tree[n].kind = "file"
           /\ \/ ~content(EntryPath(tree, n), textAtBuild[n]).ok
              \/ ~media_type(EntryPath(tree, n)).ok

C7_NoPartialOutput ==
    built # "no" =>
        /\ StepFails => (built = "panicked" /\ outFile = <<>>)
        /\ outFile # <<>> => ~StepFails

\* a live-mode build over a source that does not render
C7_Witness ==
    /\ built = "panicked"
    /\ profile = "debug"
    /\ outFile = <<>>
    /\ ~ScanFails(tree)
    /\ \E n \in Reached(tree) :
           /\ tree[n].kind = "file"
           /\ media_type(EntryPath(tree, n)).ok
           /\ ~content(EntryPath(tree, n), textAtBuild[n]).ok

\* ------------------------------------------------------------------- C8
\* C8: a rebuild trigger is printed once for every directory the walk
\* visits, in both modes, and for a visited regular file exactly in frozen
\* mode; none is printed for a hidden entry or anything below one.
C8_RebuildTriggers ==
    built # "no" =>
        /\ Range(stdout) \subseteq Reached(tree)
        /\ Len(stdout) = Cardinality(Range(stdout))
        /\ \A n \in Range(stdout) : tree[n].kind = "file" => profile = "release"
        /\ ~ScanFails(tree) =>
               \A n \in Reached(tree) :
                   /\ tree[n].kind = "dir" => n \in Range(stdout)
                   /\ tree[n].kind = "file" => (n \in Range(stdout) <=> profile = "release")

\* live mode: both directories printed, a visited file not printed
C8_Witness ==
    /\ built = "ok"
    /\ profile = "debug"
    /\ stdout = <<0, 1>>
    /\ 4 \in Reached(tree)
    /\ tree[4].kind = "file"

\* ------------------------------------------------------------------- C9
ExtendsDirective(layout) == "{% extends \"" \o layout \o ".html\" %}"
TitleBlock(name, title) ==
    "{% block " \o name \o " %}" \o title \o "{% endblock " \o name \o " %}"
ContentOpen == "{% block content %}\n"
ContentClose == "{% endblock content %}\n"
LayoutNames == UNION {Range(t.layout) : t \in Texts}
TitleTexts == UNION {Range(t.title) : t \in Texts}
ExtendsDirectives == {ExtendsDirective(l) : l \in LayoutNames}
TitleBlocks(name) == {TitleBlock(name, t) : t \in TitleTexts}
Positions(seq, set) == {i \in 1..Len(seq) : seq[i] \in set}

\* C9: for a markup source whose front matter parses, the template source
\* begins with the extends directive of <layout>.html iff layout is
\* present, holds a headtitle and a pagetitle block with the same title
\* iff title is present, and ends with the one content block that holds
\* the converted body, in the order extends, title blocks, content.
C9_TemplateShape ==
    (djOut # NotRendered /\ djIn.yaml = "ok") =>
        /\ djOut.ok
        /\ LET ps == djOut.v.pieces
               ext == Positions(ps, ExtendsDirectives)
               head == Positions(ps, TitleBlocks("headtitle"))
               page == Positions(ps, TitleBlocks("pagetitle"))
               open == Positions(ps, {ContentOpen})
               close == Positions(ps, {ContentClose})
               n == Len(ps)
           IN  /\ IF djIn.layout # <<>>
                  THEN ext = {1} /\ ps[1] = ExtendsDirective(djIn.layout[1])
                  ELSE ext = {}
               /\ IF djIn.title # <<>>
                  THEN /\ Cardinality(head) = 1 /\ Cardinality(page) = 1
                       /\ \A i \in head : ps[i] = TitleBlock("headtitle", djIn.title[1])
                       /\ \A i \in page : ps[i] = TitleBlock("pagetitle", djIn.title[1])
                       /\ \A e \in ext, h \in head, g \in page : e < h /\ h < g
                       /\ \A g \in page : g < n - 2
                  ELSE head = {} /\ page = {}
               /\ n >= 3
               /\ open = {n - 2}
               /\ close = {n}
               /\ ps[n - 1] = "<p>" \o djIn.body
                              \o (IF djIn.tplOk THEN "" ELSE "{% if %}") \o "</p>\n"

C9_Witness ==
    /\ djOut # NotRendered
    /\ djIn.yaml = "ok"
    /\ djIn.layout = <<"base">>
    /\ djIn.title = <<"T">>
    /\ djOut.ok
    /\ Len(djOut.v.pieces) = 8

\* ------------------------------------------------------------------ C10
\* the aliases of the scanned resources, in scan order, each with the
\* resource it belongs to
RECURSIVE AliasesInOrder(_)
AliasesInOrder(rs) ==
    IF rs = <<>> THEN <<>>
    ELSE LET r == Head(rs)
             url == Rewritten(r.path)
             dir == SubSeq(url, 1, Len(url) - Len(S_root_index_html))
             own == IF NameOf(url) # S_index_html THEN <<url>>
                    ELSE IF url = S_root_index_html THEN <<url, S_slash>>
                    ELSE <<url, dir, dir \o S_slash>>
         IN  [i \in 1..Len(own) |-> [url |-> own[i], of |-> r]] \o AliasesInOrder(Tail(rs))

\* C10: in every emitted artifact the registered pattern list and the
\* dispatch keys are the same sequence, namely every alias of every scanned
\* resource and nothing else; each entry carries the content (or the source
\* reference) and the media type of its resource; a GET or HEAD request for
\* a registered pattern never reaches the unregistered-path abort, which
\* only a path outside the list reaches.
C10_PatternsAreDispatchKeys ==
    built = "ok" =>
        LET a == outFile[1]
            arms == a.resource_responses
            expected == AliasesInOrder(resources[1])
        IN  /\ a.resource_paths = [i \in 1..Len(arms) |-> arms[i].path]
            /\ a.resource_paths = [i \in 1..Len(expected) |-> expected[i].url]
            /\ \A i \in 1..Len(arms) :
                   LET r == expected[i].of
                   IN  /\ arms[i].media_type = media_type(r.source).v
                       /\ IF profile = "release"
                          THEN /\ arms[i].arm = "frozen"
                               /\ arms[i].body =
                                      content(r.source, TextOf(r.source, textAtBuild)).v
                          ELSE /\ arms[i].arm = "live"
                               /\ arms[i].source = r.source
            /\ last.dispatched =>
                   (last.status = "panic: unregistered path" <=> last.path \notin Registered)

C10_Witness ==
    /\ built = "ok"
    /\ Len(outFile[1].resource_paths) >= 5
    /\ last.method = "GET"
    /\ last.status = "200"
    /\ last.path = S_slash \o S_dir

====
